---- MODULE Spec2Model ----
(***************************************************************************)
(* Model of src/src/app/page.js: the per-venue WebSocket hook              *)
(* (useOrderbookWebSocket), the venue adapters (venueConfig), the impact   *)
(* simulator (calculateMetrics) and the delayed submission                 *)
(* (handleSimulationSubmit).                                               *)
(*                                                                         *)
(* JavaScript values are represented as follows.                           *)
(*   - a decimal string ("100") is the sequence of its digits <<1,0,0>>;   *)
(*     the empty string is <<>>.  toString and parseFloat are computed on  *)
(*     the digits.                                                         *)
(*   - an object is a record; a property that is undefined is a field the  *)
(*     record does not have.                                               *)
(*   - a number is an exact rational [num, den]; NaN is [num=0, den=0].    *)
(***************************************************************************)
EXTENDS Integers, Sequences, FiniteSets, TLC

VARIABLES
    activeVenue,        \* Page: useState('OKX')
    sockets,            \* every WebSocket created so far, in creation order
    wsCurrent,          \* per hook: ws.current (0 is null)
    orderbook,          \* per hook: useState({bids: [], asks: []})
    isConnected,        \* per hook: useState(false)
    crashed,            \* a render threw: the component tree is unmounted
    simulationTimeout,  \* Page: simulationTimeout.current (0 is null)
    timers,             \* pending setTimeout callbacks with their closures
    submissions,        \* number of calls of handleSimulationSubmit so far
    simulatedOrder,     \* Page: useState(null)
    simulationMetrics,  \* Page: useState(null)
    formError,          \* OrderForm: useState('')
    lastAction,         \* observation of the step just taken
    calcOrder,          \* argument of a stand-alone calculateMetrics call
    calcBook,           \* argument of a stand-alone calculateMetrics call
    calcResult,         \* its result
    calcIndex           \* a stand-alone OrderBook render: the order and its indexes

vars == <<activeVenue, sockets, wsCurrent, orderbook, isConnected, crashed,
          simulationTimeout, timers, submissions, simulatedOrder,
          simulationMetrics, formError, lastAction,
          calcOrder, calcBook, calcResult, calcIndex>>

sessionVars == <<activeVenue, sockets, wsCurrent, orderbook, isConnected, crashed>>
simVars == <<simulationTimeout, timers, submissions, simulatedOrder,
             simulationMetrics, formError>>
calcVars == <<calcOrder, calcBook, calcResult, calcIndex>>

----------------------------------------------------------------------------
(* Bounds *)

MaxTransports == 3
MaxSubmissions == 2
MaxPings == 1
MaxLevels == 3

----------------------------------------------------------------------------
(* Numbers and strings *)

Min(a, b) == IF a <= b THEN a ELSE b
Abs(a) == IF a < 0 THEN -a ELSE a

NaN == [num |-> 0, den |-> 0]
Num(n, d) == IF d = 0 THEN NaN ELSE [num |-> n, den |-> d]
Zero == Num(0, 1)
IsNaN(x) == x.den = 0
\* x > p/q for a number x; every comparison with NaN is false
GreaterThan(x, p, q) == ~IsNaN(x) /\ x.num * q > p * x.den
AtLeast(x, p, q) == ~IsNaN(x) /\ x.num * q >= p * x.den
NumEq(x, p, q) == ~IsNaN(x) /\ x.num * q = p * x.den

RECURSIVE toString(_)
toString(n) == IF n < 10 THEN <<n>> ELSE toString(n \div 10) \o <<n % 10>>

RECURSIVE ParseDigits(_)
ParseDigits(s) ==
    IF Len(s) = 0 THEN 0
    ELSE 10 * ParseDigits(SubSeq(s, 1, Len(s) - 1)) + s[Len(s)]

\* parseFloat of a decimal string; parseFloat('') is NaN
parseFloat(s) == IF Len(s) = 0 THEN NaN ELSE Num(ParseDigits(s), 1)

Reverse(s) == [i \in 1..Len(s) |-> s[Len(s) + 1 - i]]

Has(r, f) == f \in DOMAIN r

----------------------------------------------------------------------------
(* Venue adapters: venueConfig *)

Venues == {"OKX", "Bybit", "Deribit"}

Symbol(venue) ==
    CASE venue = "OKX" -> "BTC-USD-SWAP"
      [] venue = "Bybit" -> "BTCUSDT"
      [] venue = "Deribit" -> "BTC-PERPETUAL"

\* String.prototype.startsWith on the topic and channel names that occur
StartsWith(str, prefix) ==
    CASE prefix = "orderbook.50" -> str \in {"orderbook.50.BTCUSDT"}
      [] prefix = "book." -> str \in {"book.BTC-PERPETUAL.100ms"}
      [] OTHER -> FALSE

subscribe(venue, instId) ==
    CASE venue = "OKX" -> [op |-> "subscribe", channel |-> "books", instId |-> instId]
      [] venue = "Bybit" -> [op |-> "subscribe", channel |-> "orderbook.50", instId |-> instId]
      [] venue = "Deribit" -> [op |-> "public/subscribe", channel |-> "book.100ms", instId |-> instId]

unsubscribe(venue, instId) ==
    CASE venue = "OKX" -> [op |-> "unsubscribe", channel |-> "books", instId |-> instId]
      [] venue = "Bybit" -> [op |-> "unsubscribe", channel |-> "orderbook.50", instId |-> instId]
      [] venue = "Deribit" -> [op |-> "public/unsubscribe", channel |-> "book.100ms", instId |-> instId]

PingMessage == [op |-> "ping"]

\* Results of a parse call: a thrown TypeError, undefined, or an object
Thrown == [tag |-> "throw"]
Undefined == [tag |-> "undefined"]
Value(v) == [tag |-> "value", value |-> v]

\* The object {} and the value null
EmptyObject == [object |-> TRUE]
Null == [null |-> TRUE]
IsNull(x) == Has(x, "null")

\* The object literal { bids, asks }: a side whose value is undefined is a
\* field the record does not have
BookLiteral(hasBids, bids, hasAsks, asks) ==
    IF hasBids /\ hasAsks THEN [bids |-> bids, asks |-> asks]
    ELSE IF hasBids THEN [bids |-> bids]
    ELSE IF hasAsks THEN [asks |-> asks]
    ELSE EmptyObject

parseOKX(data) ==
    IF Has(data, "arg") /\ Has(data.arg, "channel") /\ data.arg.channel = "books"
       /\ Has(data, "data") /\ Len(data.data) > 0
    THEN LET first == data.data[1]
         IN  IF ~Has(first, "asks")
             THEN Thrown      \* asks.reverse() on undefined
             ELSE Value(BookLiteral(Has(first, "bids"),
                                    IF Has(first, "bids") THEN first.bids ELSE <<>>,
                                    TRUE, Reverse(first.asks)))
    ELSE Undefined

parseBybit(data) ==
    IF Has(data, "topic") /\ StartsWith(data.topic, "orderbook.50") /\ Has(data, "data")
    THEN LET d == data.data
         IN  Value(BookLiteral(Has(d, "b"), IF Has(d, "b") THEN d.b ELSE <<>>,
                               Has(d, "a"), IF Has(d, "a") THEN d.a ELSE <<>>))
    ELSE Undefined

LevelToStrings(l) == <<toString(l[1]), toString(l[2])>>

parseDeribit(data) ==
    IF ~Has(data, "params")
    THEN Undefined
    ELSE IF ~Has(data.params, "channel")
         THEN Thrown          \* data.params.channel.startsWith on undefined
         ELSE IF StartsWith(data.params.channel, "book.") /\ Has(data.params, "data")
              THEN LET d == data.params.data
                   IN  IF ~Has(d, "bids") \/ ~Has(d, "asks")
                       THEN Thrown      \* bids.map / asks.map on undefined
                       ELSE Value([bids |-> [i \in 1..Len(d.bids) |-> LevelToStrings(d.bids[i])],
                                   asks |-> [i \in 1..Len(d.asks) |-> LevelToStrings(d.asks[i])]])
              ELSE Undefined

parse(venue, data) ==
    CASE venue = "OKX" -> parseOKX(data)
      [] venue = "Bybit" -> parseBybit(data)
      [] venue = "Deribit" -> parseDeribit(data)

----------------------------------------------------------------------------
(* Impact simulator: calculateMetrics *)

WarningText == "High slippage warning!"

RECURSIVE MarketWalkNoMin(_, _, _)
MarketWalkNoMin(bookSide, i, st) ==
    IF i > Len(bookSide) THEN st
    ELSE LET p == parseFloat(bookSide[i][1]).num
             q == parseFloat(bookSide[i][2]).num
             next == [filledQty |-> st.filledQty + q,
                      totalCost |-> st.totalCost + q * p,
                      qtyToFill |-> st.qtyToFill - q]
         IN  IF next.qtyToFill <= 0 THEN next ELSE MarketWalkNoMin(bookSide, i + 1, next)

\* for (const [levelPrice, levelQty] of bookSide) of the Market branch, from
\* level i on; st holds the loop's variables filledQty, totalCost, qtyToFill
RECURSIVE MarketWalk(_, _, _)
MarketWalk(bookSide, i, st) ==
    IF i > Len(bookSide) THEN st
    ELSE LET p == parseFloat(bookSide[i][1]).num
             q == parseFloat(bookSide[i][2]).num
             fillable == Min(st.qtyToFill, q)
             next == [filledQty |-> st.filledQty + fillable,
                      totalCost |-> st.totalCost + fillable * p,
                      qtyToFill |-> st.qtyToFill - fillable]
         IN  IF next.qtyToFill <= 0 THEN next ELSE MarketWalk(bookSide, i + 1, next)

RECURSIVE LimitWalkBreaks(_, _, _, _, _)
LimitWalkBreaks(bookSide, side, limitPrice, i, st) ==
    IF i > Len(bookSide) THEN st
    ELSE LET p == parseFloat(bookSide[i][1]).num
             q == parseFloat(bookSide[i][2]).num
             canFill == IF side = "Buy" THEN p <= limitPrice ELSE p >= limitPrice
             fillable == Min(st.qtyToFill, q)
             next == [filledQty |-> st.filledQty + fillable,
                      totalCost |-> st.totalCost,
                      qtyToFill |-> st.qtyToFill - fillable]
         IN  IF ~canFill THEN st
             ELSE IF next.qtyToFill <= 0 THEN next
             ELSE LimitWalkBreaks(bookSide, side, limitPrice, i + 1, next)

RECURSIVE LimitWalkNoMin(_, _, _, _, _)
LimitWalkNoMin(bookSide, side, limitPrice, i, st) ==
    IF i > Len(bookSide) THEN st
    ELSE LET p == parseFloat(bookSide[i][1]).num
             q == parseFloat(bookSide[i][2]).num
             canFill == IF side = "Buy" THEN p <= limitPrice ELSE p >= limitPrice
             next == IF canFill
                     THEN [filledQty |-> st.filledQty + q,
                           totalCost |-> st.totalCost,
                           qtyToFill |-> st.qtyToFill - q]
                     ELSE st
         IN  IF next.qtyToFill <= 0 THEN next
             ELSE LimitWalkNoMin(bookSide, side, limitPrice, i + 1, next)

\* the loop of the Limit branch: totalCost is never touched
RECURSIVE LimitWalk(_, _, _, _, _)
LimitWalk(bookSide, side, limitPrice, i, st) ==
    IF i > Len(bookSide) THEN st
    ELSE LET p == parseFloat(bookSide[i][1]).num
             q == parseFloat(bookSide[i][2]).num
             canFill == IF side = "Buy" THEN p <= limitPrice ELSE p >= limitPrice
             fillable == Min(st.qtyToFill, q)
             next == IF canFill
                     THEN [filledQty |-> st.filledQty + fillable,
                           totalCost |-> st.totalCost,
                           qtyToFill |-> st.qtyToFill - fillable]
                     ELSE st
         IN  IF next.qtyToFill <= 0 THEN next
             ELSE LimitWalk(bookSide, side, limitPrice, i + 1, next)

WarningAtThreshold(slippage) == IF AtLeast(slippage, 1, 2) THEN WarningText ELSE ""

\* if (slippage > 0.5) warning = `High slippage warning! ...`
WarningFor(slippage) == IF GreaterThan(slippage, 1, 2) THEN WarningText ELSE ""

calculateMetricsLimitImpact(order, book) ==
    LET qty == parseFloat(order.quantity).num
        bookSide == IF order.side = "Buy" THEN book.asks ELSE book.bids
        entryPrice == IF Len(bookSide) > 0 /\ Len(bookSide[1][1]) > 0
                      THEN parseFloat(bookSide[1][1]).num
                      ELSE parseFloat(<<0>>).num
        start == [filledQty |-> 0, totalCost |-> 0, qtyToFill |-> qty]
    IN  IF order.orderType = "Market"
        THEN LET w == MarketWalk(bookSide, 1, start)
                 avgFillPrice == Num(w.totalCost, w.filledQty)
                 slippage == IF entryPrice > 0 /\ w.filledQty > 0
                             THEN Num(Abs(w.totalCost - entryPrice * w.filledQty) * 100,
                                      entryPrice * w.filledQty)
                             ELSE Zero
                 impact == IF IsNaN(avgFillPrice) THEN NaN
                           ELSE Num(Abs(w.totalCost - entryPrice * w.filledQty), w.filledQty)
             IN  [filledQty |-> w.filledQty,
                  avgFillPrice |-> avgFillPrice,
                  fillPercent |-> IF qty > 0 THEN Num(w.filledQty * 100, qty) ELSE Num(100, 1),
                  slippage |-> slippage,
                  impact |-> impact,
                  warning |-> WarningFor(slippage)]
        ELSE LET limitPrice == parseFloat(order.price).num
                 w == LimitWalk(bookSide, order.side, limitPrice, 1, start)
                 slippage == IF entryPrice > 0 /\ w.filledQty > 0
                             THEN Num(Abs(limitPrice - entryPrice) * 100, entryPrice)
                             ELSE Zero
             IN  [filledQty |-> w.filledQty,
                  avgFillPrice |-> NaN,
                  fillPercent |-> IF qty > 0 THEN Num(w.filledQty * 100, qty) ELSE Num(100, 1),
                  slippage |-> slippage,
                  impact |-> Num(Abs(limitPrice - entryPrice), 1),
                  warning |-> WarningFor(slippage)]

\* The result carries, besides the returned fillPercent, slippage, impact and
\* warning, the locals filledQty and avgFillPrice the claims speak about
\* (avgFillPrice exists in the Market branch only).
calculateMetrics(order, book) ==
    LET qty == parseFloat(order.quantity).num
        bookSide == IF order.side = "Buy" THEN book.asks ELSE book.bids
        entryPrice == IF Len(bookSide) > 0 /\ Len(bookSide[1][1]) > 0
                      THEN parseFloat(bookSide[1][1]).num
                      ELSE parseFloat(<<0>>).num
        start == [filledQty |-> 0, totalCost |-> 0, qtyToFill |-> qty]
    IN  IF order.orderType = "Market"
        THEN LET w == MarketWalk(bookSide, 1, start)
                 avgFillPrice == Num(w.totalCost, w.filledQty)
                 slippage == IF entryPrice > 0 /\ w.filledQty > 0
                             THEN Num(Abs(w.totalCost - entryPrice * w.filledQty) * 100,
                                      entryPrice * w.filledQty)
                             ELSE Zero
                 impact == IF IsNaN(avgFillPrice) THEN NaN
                           ELSE Num(Abs(w.totalCost - entryPrice * w.filledQty), w.filledQty)
             IN  [filledQty |-> w.filledQty,
                  avgFillPrice |-> avgFillPrice,
                  fillPercent |-> IF qty > 0 THEN Num(w.filledQty * 100, qty) ELSE Num(100, 1),
                  slippage |-> slippage,
                  impact |-> impact,
                  warning |-> WarningFor(slippage)]
        ELSE LET w == LimitWalk(bookSide, order.side, parseFloat(order.price).num, 1, start)
             IN  [filledQty |-> w.filledQty,
                  avgFillPrice |-> NaN,
                  fillPercent |-> IF qty > 0 THEN Num(w.filledQty * 100, qty) ELSE Num(100, 1),
                  slippage |-> Zero,
                  impact |-> Zero,
                  warning |-> WarningFor(Zero)]

----------------------------------------------------------------------------
(* Stand-alone calls of calculateMetrics on bounded inputs *)

BookLevels(prices) == {<<toString(p), toString(q)>> : p \in prices, q \in {0, 1, 2, 5}}

RECURSIVE Ladders(_, _)
Ladders(levels, n) ==
    IF n = 0 THEN {<<>>}
    ELSE LET shorter == Ladders(levels, n - 1)
         IN  shorter \cup {Append(s, l) : s \in {x \in shorter : Len(x) = n - 1}, l \in levels}

AskPrices == {100, 101, 102}
BidPrices == {98, 99}
Quantities == {1, 2, 10}
LimitPrices == {99, 100, 101}

CalcOrders ==
    {[side |-> sd, orderType |-> "Market", price |-> <<>>, quantity |-> toString(q)] :
        sd \in {"Buy", "Sell"}, q \in Quantities}
    \cup
    {[side |-> sd, orderType |-> "Limit", price |-> toString(l), quantity |-> toString(q)] :
        sd \in {"Buy", "Sell"}, q \in Quantities, l \in LimitPrices}

RestingBids == <<<<toString(99), toString(1)>>, <<toString(98), toString(2)>>>>
RestingAsks == <<<<toString(100), toString(1)>>>>

\* the consumed side ranges over every ladder; the other side is not read
CalcBooksFor(side) ==
    IF side = "Buy"
    THEN {[bids |-> b, asks |-> a] : b \in {<<>>, RestingBids}, a \in Ladders(BookLevels(AskPrices), MaxLevels)}
    ELSE {[bids |-> b, asks |-> a] : b \in Ladders(BookLevels(BidPrices), MaxLevels), a \in {<<>>, RestingAsks}}

----------------------------------------------------------------------------
(* Inbound messages *)

Strings(ladder) == [i \in 1..Len(ladder) |-> LevelToStrings(ladder[i])]

\* wire books as [price, size] numbers: bids descending, asks ascending
WireBids == {<<>>, <<<<99, 1>>, <<98, 2>>>>}
WireAsks == {<<>>, <<<<100, 1>>, <<101, 2>>, <<102, 5>>>>}
WireBooks == {<<b, a>> \in WireBids \X WireAsks : Len(b) = 0 <=> Len(a) = 0}
FullBooks == {w \in WireBooks : Len(w[1]) > 0}

OKXArg == [channel |-> "books", instId |-> Symbol("OKX")]
DeribitChannel == "book.BTC-PERPETUAL.100ms"

OKXData ==
    {[event |-> "pong"],
     [event |-> "subscribe", arg |-> OKXArg],
     [arg |-> OKXArg, data |-> <<>>]}
    \cup {[arg |-> OKXArg, data |-> <<[bids |-> Strings(w[1]), asks |-> Strings(w[2])]>>] :
            w \in WireBooks}
    \cup {[arg |-> OKXArg, data |-> <<[bids |-> Strings(w[1])]>>] : w \in FullBooks}
    \cup {[arg |-> OKXArg, data |-> <<[asks |-> Strings(w[2])]>>] : w \in FullBooks}

BybitData ==
    {[op |-> "pong"],
     [op |-> "subscribe", success |-> TRUE],
     [topic |-> "orderbook.50.BTCUSDT", data |-> EmptyObject]}
    \cup {[topic |-> "orderbook.50.BTCUSDT", data |-> [b |-> Strings(w[1]), a |-> Strings(w[2])]] :
            w \in WireBooks}
    \cup {[topic |-> "orderbook.50.BTCUSDT", data |-> [b |-> Strings(w[1])]] : w \in FullBooks}
    \cup {[topic |-> "orderbook.50.BTCUSDT", data |-> [a |-> Strings(w[2])]] : w \in FullBooks}

DeribitData ==
    {[method |-> "heartbeat", params |-> [type |-> "test_request"]],
     [id |-> 1, result |-> <<DeribitChannel>>],
     [method |-> "subscription", params |-> [data |-> EmptyObject]]}
    \cup {[method |-> "subscription",
           params |-> [channel |-> DeribitChannel, data |-> [bids |-> w[1], asks |-> w[2]]]] :
            w \in WireBooks}
    \cup {[method |-> "subscription",
           params |-> [channel |-> DeribitChannel, data |-> [bids |-> w[1]]]] : w \in FullBooks}
    \cup {[method |-> "subscription",
           params |-> [channel |-> DeribitChannel, data |-> [asks |-> w[2]]]] : w \in FullBooks}

\* event.data: text that is not JSON, or the text of one of the objects above
InvalidJSON == [json |-> FALSE]
Json(data) == [json |-> TRUE, data |-> data]

RawMessages(venue) ==
    {InvalidJSON} \cup
    {Json(d) : d \in CASE venue = "OKX" -> OKXData
                       [] venue = "Bybit" -> BybitData
                       [] venue = "Deribit" -> DeribitData}

----------------------------------------------------------------------------
(* useOrderbookWebSocket *)

EmptyBook == [bids |-> <<>>, asks |-> <<>>]

\* OrderBook and DepthChart call bids.slice and asks.slice while rendering
Renders(book) == Has(book, "bids") /\ Has(book, "asks")

NewSocket(venue) ==
    [venue |-> venue, readyState |-> "CONNECTING", closeCalled |-> FALSE,
     pingInterval |-> "unset", sent |-> <<>>]

Ids == 1..Len(sockets)

\* WebSocket.close()
close(socks, t) ==
    [socks EXCEPT ![t].readyState =
        IF @ \in {"CONNECTING", "OPEN"} THEN "CLOSING" ELSE @,
                  ![t].closeCalled = TRUE]

\* WebSocket.send(): transmits when OPEN, is discarded when CLOSING or CLOSED
\* and throws InvalidStateError when CONNECTING
SendThrows(socks, t) == socks[t].readyState = "CONNECTING"
send(socks, t, msg) ==
    IF socks[t].readyState = "OPEN"
    THEN [socks EXCEPT ![t].sent = Append(@, msg)]
    ELSE socks

\* clearInterval(pingInterval) in the closure of the effect that created t
clearInterval(socks, t) ==
    [socks EXCEPT ![t].pingInterval = IF @ = "active" THEN "cleared" ELSE @]

\* the effect instance of a hook that is live: the one that created the
\* hook's latest socket
EffectSocket(socks, venue) ==
    LET own == {t \in 1..Len(socks) : socks[t].venue = venue}
    IN  IF own = {} THEN 0 ELSE CHOOSE t \in own : \A u \in own : u <= t

CleanupKeepsInterval(socks, cur, venue) ==
    LET afterSend == IF cur # 0 /\ socks[cur].readyState = "OPEN"
                     THEN send(socks, cur, unsubscribe(venue, Symbol(venue)))
                     ELSE socks
    IN  IF cur # 0 THEN close(afterSend, cur) ELSE afterSend

CleanupClosesFirst(socks, cur, venue) ==
    LET afterClose == IF cur # 0 THEN close(socks, cur) ELSE socks
        afterSend == IF cur # 0 /\ socks[cur].readyState = "OPEN"
                     THEN send(afterClose, cur, unsubscribe(venue, Symbol(venue)))
                     ELSE afterClose
        eff == EffectSocket(socks, venue)
    IN  IF eff # 0 THEN clearInterval(afterSend, eff) ELSE afterSend

\* the function returned by the effect (lines 134-146), for the hook of venue
Cleanup(socks, cur, venue) ==
    LET afterSend == IF cur # 0 /\ socks[cur].readyState = "OPEN"
                     THEN send(socks, cur, unsubscribe(venue, Symbol(venue)))
                     ELSE socks
        afterClose == IF cur # 0 THEN close(afterSend, cur) ELSE afterSend
        eff == EffectSocket(socks, venue)
    IN  IF eff # 0 THEN clearInterval(afterClose, eff) ELSE afterClose

HiddenEffectSharedRef(socks, cur) ==
    [t \in 1..Len(socks) |-> close(socks, t)[t]]

\* the effect body when the hook is not visible (lines 80-86)
HiddenEffect(socks, cur) == IF cur # 0 THEN close(socks, cur) ELSE socks

\* the commit for the hook that stops being visible: its cleanup, then its
\* new effect body
TeardownMissing(socks, cur, venue) == socks

Teardown(socks, cur, venue) == HiddenEffect(Cleanup(socks, cur, venue), cur)

Live(socks) == {t \in 1..Len(socks) : socks[t].readyState \in {"CONNECTING", "OPEN"}}

\* setActiveVenue(v): the commit runs the cleanup of the hook that was visible,
\* then the effect bodies: the hidden hook closes and forgets its socket, the
\* visible hook creates one.
SetActiveVenue(v) ==
    /\ ~crashed
    /\ v \in Venues
    /\ v # activeVenue
    /\ Len(sockets) < MaxTransports
    /\ LET old == activeVenue
           hidden == Teardown(sockets, wsCurrent[old], old)
       IN  /\ sockets' = Append(hidden, NewSocket(v))
           /\ wsCurrent' = [wsCurrent EXCEPT ![old] = 0, ![v] = Len(sockets) + 1]
           /\ lastAction' = [op |-> "setActiveVenue", liveAtCreate |-> Live(hidden)]
    /\ activeVenue' = v
    /\ UNCHANGED <<orderbook, isConnected, crashed>>
    /\ UNCHANGED simVars
    /\ UNCHANGED calcVars

\* setIsConnected on a component that may be gone
SetIsConnected(venue, value) ==
    isConnected' = IF crashed THEN isConnected ELSE [isConnected EXCEPT ![venue] = value]

WsOpenSubscribesTwice(t) ==
    /\ t \in Ids
    /\ sockets[t].readyState = "CONNECTING"
    /\ LET venue == sockets[t].venue
           opened == [sockets EXCEPT ![t].readyState = "OPEN"]
           cur == wsCurrent[venue]
           raised == cur = 0 \/ SendThrows(opened, cur)
           sentOn == IF raised THEN opened
                     ELSE send(send(opened, cur, subscribe(venue, Symbol(venue))),
                               cur, subscribe(venue, Symbol(venue)))
       IN  /\ sockets' = IF ~raised /\ venue = "Bybit"
                         THEN [sentOn EXCEPT ![t].pingInterval = "active"]
                         ELSE sentOn
           /\ IF raised THEN UNCHANGED isConnected ELSE SetIsConnected(venue, TRUE)
           /\ lastAction' = [op |-> "open", raised |-> raised]
    /\ UNCHANGED <<activeVenue, wsCurrent, orderbook, crashed>>
    /\ UNCHANGED simVars
    /\ UNCHANGED calcVars

\* the open event (lines 94-107).  A WebSocket delivers it only while
\* CONNECTING: after close() the handshake is abandoned and the socket goes to
\* CLOSING and CLOSED without ever opening.
WsOpen(t) ==
    /\ t \in Ids
    /\ sockets[t].readyState = "CONNECTING"
    /\ LET venue == sockets[t].venue
           opened == [sockets EXCEPT ![t].readyState = "OPEN"]
           cur == wsCurrent[venue]
           raised == cur = 0 \/ SendThrows(opened, cur)
           sentOn == IF raised THEN opened ELSE send(opened, cur, subscribe(venue, Symbol(venue)))
       IN  /\ sockets' = IF ~raised /\ venue = "Bybit"
                         THEN [sentOn EXCEPT ![t].pingInterval = "active"]
                         ELSE sentOn
           /\ IF raised THEN UNCHANGED isConnected ELSE SetIsConnected(venue, TRUE)
           /\ lastAction' = [op |-> "open", raised |-> raised]
    /\ UNCHANGED <<activeVenue, wsCurrent, orderbook, crashed>>
    /\ UNCHANGED simVars
    /\ UNCHANGED calcVars

IsKeepAlive(venue, data) ==
    \/ Has(data, "event") /\ data.event = "pong"
    \/ Has(data, "op") /\ data.op = "pong"
    \/ venue = "Deribit" /\ Has(data, "method") /\ data.method = "heartbeat"

\* a book-channel message that lacks a field the adapter reads, a Deribit
\* message whose params has no channel, or text that is not JSON
Malformed(venue, raw) ==
    \/ ~raw.json
    \/ /\ raw.json
       /\ LET data == raw.data
          IN  CASE venue = "OKX" ->
                     /\ Has(data, "arg") /\ data.arg.channel = "books"
                     /\ Has(data, "data") /\ Len(data.data) > 0
                     /\ (~Has(data.data[1], "bids") \/ ~Has(data.data[1], "asks"))
                [] venue = "Bybit" ->
                     /\ Has(data, "topic") /\ StartsWith(data.topic, "orderbook.50")
                     /\ Has(data, "data")
                     /\ (~Has(data.data, "b") \/ ~Has(data.data, "a"))
                [] venue = "Deribit" ->
                     /\ Has(data, "params")
                     /\ ~IsKeepAlive(venue, data)
                     /\ \/ ~Has(data.params, "channel")
                        \/ /\ Has(data.params, "channel")
                           /\ StartsWith(data.params.channel, "book.")
                           /\ Has(data.params, "data")
                           /\ (~Has(data.params.data, "bids") \/ ~Has(data.params.data, "asks"))

\* the message handler (lines 109-121): what it does with event.data
OnMessage(venue, raw) ==
    IF ~raw.json THEN [raised |-> TRUE, set |-> FALSE]       \* JSON.parse throws
    ELSE IF IsKeepAlive(venue, raw.data) THEN [raised |-> FALSE, set |-> FALSE]
    ELSE LET newOrderbook == parse(venue, raw.data)
         IN  IF newOrderbook.tag = "throw" THEN [raised |-> TRUE, set |-> FALSE]
             ELSE IF newOrderbook.tag = "undefined" THEN [raised |-> FALSE, set |-> FALSE]
             ELSE [raised |-> FALSE, set |-> TRUE, book |-> newOrderbook.value]

WsMessageMerges(t, raw) ==
    /\ t \in Ids
    /\ sockets[t].readyState = "OPEN"
    /\ raw \in RawMessages(sockets[t].venue)
    /\ LET venue == sockets[t].venue
           r == OnMessage(venue, raw)
           publish == r.set /\ ~crashed
           breaks == publish /\ venue = activeVenue /\ ~Renders(r.book)
       IN  /\ orderbook' = IF publish /\ Renders(r.book) /\ Renders(orderbook[venue])
                         THEN [orderbook EXCEPT ![venue] =
                                 [bids |-> r.book.bids \o @.bids, asks |-> r.book.asks \o @.asks]]
                         ELSE IF publish THEN [orderbook EXCEPT ![venue] = r.book]
                         ELSE orderbook
           /\ crashed' = (crashed \/ breaks)
           /\ sockets' = IF breaks
                         THEN Cleanup(sockets, wsCurrent[activeVenue], activeVenue)
                         ELSE sockets
           /\ lastAction' = [op |-> "message", raised |-> r.raised,
                             malformed |-> Malformed(venue, raw),
                             keepAlive |-> raw.json /\ IsKeepAlive(venue, raw.data),
                             published |-> publish,
                             venue |-> venue,
                             message |-> IF publish THEN raw.data ELSE Null,
                             replaced |-> publish /\ orderbook[venue] # EmptyBook]
    /\ UNCHANGED <<activeVenue, wsCurrent, isConnected>>
    /\ UNCHANGED simVars
    /\ UNCHANGED calcVars

\* the message event, which a WebSocket delivers only while OPEN (a message
\* received after close() is discarded).  A book that cannot be rendered makes the next render
\* throw: React unmounts the tree, which runs the cleanup of the visible hook.
WsMessage(t, raw) ==
    /\ t \in Ids
    /\ sockets[t].readyState = "OPEN"
    /\ raw \in RawMessages(sockets[t].venue)
    /\ LET venue == sockets[t].venue
           r == OnMessage(venue, raw)
           publish == r.set /\ ~crashed
           breaks == publish /\ venue = activeVenue /\ ~Renders(r.book)
       IN  /\ orderbook' = IF publish THEN [orderbook EXCEPT ![venue] = r.book] ELSE orderbook
           /\ crashed' = (crashed \/ breaks)
           /\ sockets' = IF breaks
                         THEN Cleanup(sockets, wsCurrent[activeVenue], activeVenue)
                         ELSE sockets
           /\ lastAction' = [op |-> "message", raised |-> r.raised,
                             malformed |-> Malformed(venue, raw),
                             keepAlive |-> raw.json /\ IsKeepAlive(venue, raw.data),
                             published |-> publish,
                             venue |-> venue,
                             message |-> IF publish THEN raw.data ELSE Null,
                             replaced |-> publish /\ orderbook[venue] # EmptyBook]
    /\ UNCHANGED <<activeVenue, wsCurrent, isConnected>>
    /\ UNCHANGED simVars
    /\ UNCHANGED calcVars

WsClosedKeepsInterval(t, failed) ==
    /\ t \in Ids
    /\ sockets[t].readyState # "CLOSED"
    /\ sockets' = [sockets EXCEPT ![t].readyState = "CLOSED"]
    /\ SetIsConnected(sockets[t].venue, FALSE)
    /\ lastAction' = [op |-> "closed", failed |-> failed]
    /\ UNCHANGED <<activeVenue, wsCurrent, orderbook, crashed>>
    /\ UNCHANGED simVars
    /\ UNCHANGED calcVars

WsClosedReconnects(t, failed) ==
    /\ t \in Ids
    /\ sockets[t].readyState # "CLOSED"
    /\ Len(sockets) < MaxTransports
    /\ LET closed == clearInterval([sockets EXCEPT ![t].readyState = "CLOSED"], t)
       IN  sockets' = Append(closed, NewSocket(sockets[t].venue))
    /\ SetIsConnected(sockets[t].venue, FALSE)
    /\ lastAction' = [op |-> "closed", failed |-> failed]
    /\ UNCHANGED <<activeVenue, wsCurrent, orderbook, crashed>>
    /\ UNCHANGED simVars
    /\ UNCHANGED calcVars

WsClosedClearsBook(t, failed) ==
    /\ t \in Ids
    /\ sockets[t].readyState # "CLOSED"
    /\ sockets' = clearInterval([sockets EXCEPT ![t].readyState = "CLOSED"], t)
    /\ SetIsConnected(sockets[t].venue, FALSE)
    /\ orderbook' = [orderbook EXCEPT ![sockets[t].venue] = EmptyBook]
    /\ lastAction' = [op |-> "closed", failed |-> failed]
    /\ UNCHANGED <<activeVenue, wsCurrent, crashed>>
    /\ UNCHANGED simVars
    /\ UNCHANGED calcVars

\* The task that ends a connection sets readyState to CLOSED, fires the error
\* event when the connection failed (lines 123-126) and then the close event
\* (lines 128-132); no other task runs between the two handlers.
WsClosed(t, failed) ==
    /\ t \in Ids
    /\ sockets[t].readyState # "CLOSED"
    /\ sockets' = clearInterval([sockets EXCEPT ![t].readyState = "CLOSED"], t)
    /\ SetIsConnected(sockets[t].venue, FALSE)
    /\ lastAction' = [op |-> "closed", failed |-> failed]
    /\ UNCHANGED <<activeVenue, wsCurrent, orderbook, crashed>>
    /\ UNCHANGED simVars
    /\ UNCHANGED calcVars

Pings(socks) ==
    Cardinality({<<t, i>> \in (1..Len(socks)) \X (1..(MaxPings + 3)) :
                    i <= Len(socks[t].sent) /\ socks[t].sent[i] = PingMessage})

\* the setInterval callback of the effect that created t (lines 101-105)
PingTick(t) ==
    /\ t \in Ids
    /\ sockets[t].pingInterval = "active"
    /\ Pings(sockets) < MaxPings
    /\ LET cur == wsCurrent[sockets[t].venue]
           sends == cur # 0 /\ sockets[cur].readyState = "OPEN"
       IN  /\ sockets' = IF sends THEN send(sockets, cur, PingMessage) ELSE sockets
           /\ lastAction' = [op |-> "ping", socket |-> t, on |-> IF sends THEN cur ELSE 0]
    /\ UNCHANGED <<activeVenue, wsCurrent, orderbook, isConnected, crashed>>
    /\ UNCHANGED simVars
    /\ UNCHANGED calcVars

----------------------------------------------------------------------------
(* OrderForm.handleSubmit and Page.handleSimulationSubmit *)

Forms ==
    {[orderType |-> "Market", side |-> sd, price |-> <<>>, quantity |-> q, delay |-> d] :
        sd \in {"Buy", "Sell"}, q \in {<<>>, toString(0), toString(2)},
        d \in {toString(0), toString(5)}}
    \cup
    {[orderType |-> "Limit", side |-> sd, price |-> pr, quantity |-> q, delay |-> d] :
        sd \in {"Buy", "Sell"}, pr \in {<<>>, toString(0), toString(100)},
        q \in {<<>>, toString(2)}, d \in {toString(0), toString(5)}}

\* parseInt(s, 10) of a decimal string
parseInt(s) == ParseDigits(s)

ValidationErrorAllowsZero(formData) ==
    IF formData.orderType = "Limit"
       /\ (Len(formData.price) = 0 \/ ~GreaterThan(parseFloat(formData.price), 0, 1))
    THEN "Please enter a valid price for a limit order."
    ELSE IF Len(formData.quantity) = 0 \/ ~AtLeast(parseFloat(formData.quantity), 0, 1)
         THEN "Please enter a valid quantity."
         ELSE ""

\* the checks of OrderForm.handleSubmit (lines 360-367): '' when the form passes
ValidationError(formData) ==
    IF formData.orderType = "Limit"
       /\ (Len(formData.price) = 0 \/ ~GreaterThan(parseFloat(formData.price), 0, 1))
    THEN "Please enter a valid price for a limit order."
    ELSE IF Len(formData.quantity) = 0 \/ ~GreaterThan(parseFloat(formData.quantity), 0, 1)
         THEN "Please enter a valid quantity."
         ELSE ""

currentOrderbook == orderbook[activeVenue]

\* price >= parseFloat(level[0]) and price <= parseFloat(level[0]) on numbers:
\* false when either is NaN
NumAtLeast(x, y) == ~IsNaN(x) /\ ~IsNaN(y) /\ x.num * y.den >= y.num * x.den

\* levels.findIndex(level => ...) from position i on (positions count from 1,
\* the index returned counts from 0)
RECURSIVE findIndex(_, _, _, _)
findIndex(levels, side, price, i) ==
    IF i > Len(levels) THEN -1
    ELSE LET levelPrice == parseFloat(levels[i][1])
             found == IF side = "Buy" THEN NumAtLeast(price, levelPrice)
                      ELSE NumAtLeast(levelPrice, price)
         IN  IF found THEN i - 1 ELSE findIndex(levels, side, price, i + 1)

findSimulatedIndexSwapped(levels, order) ==
    IF IsNull(order) THEN -1
    ELSE findIndex(levels, IF order.side = "Buy" THEN "Sell" ELSE "Buy",
                   parseFloat(order.price), 1)

\* OrderBook.findSimulatedIndex (lines 205-213)
findSimulatedIndex(levels, order) ==
    IF IsNull(order) THEN -1
    ELSE findIndex(levels, order.side, parseFloat(order.price), 1)

\* executeSimulation (lines 562-577) over the book its closure holds.
\* formData.symbol and setSymbol (line 560) are left out: the symbol state is
\* written there and read nowhere.
executeSimulation(formData, book) ==
    LET orderPrice ==
            IF formData.orderType = "Market"
            THEN IF formData.side = "Buy" /\ Len(book.asks) > 0 THEN book.asks[1][1]
                 ELSE IF formData.side = "Sell" /\ Len(book.bids) > 0 THEN book.bids[1][1]
                 ELSE formData.price
            ELSE formData.price
        order == [formData EXCEPT !.price = orderPrice]
    IN  [order |-> order, metrics |-> calculateMetrics(order, book)]

\* the book executeSimulation reads: the currentOrderbook of the render that
\* created handleSimulationSubmit, which is the one current at submission
ClosureBook(submitBook, fireBook) == submitBook

Publish(formData, book) ==
    LET r == executeSimulation(formData, book)
    IN  IF crashed
        THEN UNCHANGED <<simulatedOrder, simulationMetrics>>
        ELSE /\ simulatedOrder' = r.order
             /\ simulationMetrics' = r.metrics

clearTimeoutMissing(pending, id) == pending

\* clearTimeout(simulationTimeout.current)
clearTimeout(pending, id) == {tm \in pending : tm.id # id}

HandleSubmit(formData) ==
    /\ ~crashed
    /\ formData \in Forms
    /\ submissions < MaxSubmissions
    /\ formError' = ValidationError(formData)
    /\ IF ValidationError(formData) # ""
       THEN /\ lastAction' = [op |-> "rejected"]
            /\ UNCHANGED <<simulationTimeout, timers, submissions, simulatedOrder,
                           simulationMetrics>>
       ELSE LET id == submissions + 1
                cleared == IF simulationTimeout # 0
                           THEN clearTimeout(timers, simulationTimeout)
                           ELSE timers
                delay == parseInt(formData.delay) * 1000
            IN  /\ submissions' = id
                /\ IF delay > 0
                   THEN /\ simulationTimeout' = id
                        /\ timers' = cleared \cup
                               {[id |-> id, formData |-> formData, book |-> currentOrderbook]}
                        /\ lastAction' = [op |-> "submit", submission |-> id,
                                          cancelled |-> timers \ cleared]
                        /\ UNCHANGED <<simulatedOrder, simulationMetrics>>
                   ELSE /\ timers' = cleared
                        /\ Publish(formData, ClosureBook(currentOrderbook, currentOrderbook))
                        /\ lastAction' = [op |-> "executeSimulation", submission |-> id,
                                          delayed |-> FALSE, cancelled |-> timers \ cleared,
                                          result |-> executeSimulation(formData,
                                              ClosureBook(currentOrderbook, currentOrderbook))]
                        /\ UNCHANGED simulationTimeout
    /\ UNCHANGED sessionVars
    /\ UNCHANGED calcVars

\* the setTimeout callback of a pending submission
TimerFire(tm) ==
    /\ tm \in timers
    /\ timers' = timers \ {tm}
    /\ Publish(tm.formData, ClosureBook(tm.book, currentOrderbook))
    /\ lastAction' = [op |-> "executeSimulation", submission |-> tm.id,
                      delayed |-> TRUE, cancelled |-> {},
                      result |-> executeSimulation(tm.formData,
                                                   ClosureBook(tm.book, currentOrderbook))]
    /\ UNCHANGED <<simulationTimeout, submissions, formError>>
    /\ UNCHANGED sessionVars
    /\ UNCHANGED calcVars

----------------------------------------------------------------------------
(* Specifications *)

PageInit ==
    /\ activeVenue = "OKX"
    /\ sockets = <<NewSocket("OKX")>>
    /\ wsCurrent = [v \in Venues |-> IF v = "OKX" THEN 1 ELSE 0]
    /\ orderbook = [v \in Venues |-> EmptyBook]
    /\ isConnected = [v \in Venues |-> FALSE]
    /\ crashed = FALSE
    /\ simulationTimeout = 0
    /\ timers = {}
    /\ submissions = 0
    /\ simulatedOrder = Null
    /\ simulationMetrics = Null
    /\ formError = ""
    /\ lastAction = [op |-> "mount"]

Init ==
    /\ PageInit
    /\ calcOrder = Null
    /\ calcBook = Null
    /\ calcResult = Null
    /\ calcIndex = Null

Next ==
    \/ \E v \in Venues : SetActiveVenue(v)
    \/ \E t \in Ids : WsOpen(t)
    \/ \E t \in Ids : \E raw \in RawMessages(sockets[t].venue) : WsMessage(t, raw)
    \/ \E t \in Ids : \E failed \in BOOLEAN : WsClosed(t, failed)
    \/ \E t \in Ids : PingTick(t)

Spec == Init /\ [][Next]_vars

\* Submissions interleaved with venue switches and book updates.  The error,
\* close and ping steps are left out: they write only sockets and isConnected,
\* which no submission step reads, and can only disable a message step.
SimVenues == {"OKX", "Bybit"}

BookUpdates(venue) ==
    {raw \in RawMessages(venue) :
        raw.json /\ OnMessage(venue, raw).set /\ Renders(OnMessage(venue, raw).book)}

SimNext ==
    \/ \E v \in SimVenues : SetActiveVenue(v)
    \/ \E t \in Ids : WsOpen(t)
    \/ \E t \in Ids : \E raw \in BookUpdates(sockets[t].venue) : WsMessage(t, raw)
    \/ \E formData \in Forms : HandleSubmit(formData)
    \/ \E tm \in timers : TimerFire(tm)

SimSpec == Init /\ [][SimNext]_vars

\* The same page when the feed may also deliver a book update that lacks a
\* side.  A timer set by setTimeout fires once its delay has passed.
Updates(venue) == {raw \in RawMessages(venue) : raw.json /\ OnMessage(venue, raw).set}

PageNext ==
    \/ \E v \in SimVenues : SetActiveVenue(v)
    \/ \E t \in Ids : WsOpen(t)
    \/ \E t \in Ids : \E raw \in Updates(sockets[t].venue) : WsMessage(t, raw)
    \/ \E formData \in Forms : HandleSubmit(formData)
    \/ \E tm \in timers : TimerFire(tm)

PageSpec == Init /\ [][PageNext]_vars /\ WF_vars(\E tm \in timers : TimerFire(tm))

\* Every event of a session together with submissions: an order at the market
\* that runs at once, one that runs after its delay, and one that is rejected.
FrameForms ==
    {f \in Forms : /\ f.orderType = "Market"
                   /\ f.side = "Buy"
                   /\ f.quantity \in {<<>>, toString(2)}
                   /\ (f.quantity = <<>> => f.delay = toString(0))}

\* every kind of inbound message: text that is not JSON, keep-alives,
\* acknowledgements, messages the adapter ignores or fails on, and book
\* updates that carry levels on both sides
FrameMessages(venue) ==
    {raw \in RawMessages(venue) :
        \/ ~raw.json
        \/ ~OnMessage(venue, raw).set
        \/ Renders(OnMessage(venue, raw).book) /\ OnMessage(venue, raw).book # EmptyBook}

\* the page opens on OKX; the only switch is to the venue that pings
FrameVenues == {"Bybit"}

FrameNext ==
    \/ \E v \in FrameVenues : SetActiveVenue(v)
    \/ \E t \in Ids : WsOpen(t)
    \/ \E t \in Ids : \E raw \in FrameMessages(sockets[t].venue) : WsMessage(t, raw)
    \/ \E t \in Ids : \E failed \in BOOLEAN : WsClosed(t, failed)
    \/ \E t \in Ids : PingTick(t)
    \/ \E formData \in FrameForms : HandleSubmit(formData)
    \/ \E tm \in timers : TimerFire(tm)

FrameSpec == Init /\ [][FrameNext]_vars

\* calculateMetrics applied to one order and one book
Calculate ==
    /\ IsNull(calcResult)
    /\ calcResult' = calculateMetrics(calcOrder, calcBook)
    /\ UNCHANGED <<calcOrder, calcBook, calcIndex, lastAction>>
    /\ UNCHANGED sessionVars
    /\ UNCHANGED simVars

\* what OrderBook computes when it renders book with simulatedOrder (lines 215-216)
Render(book, order) ==
    [order |-> order,
     simulatedAskIndex |-> findSimulatedIndex(book.asks, order),
     simulatedBidIndex |-> findSimulatedIndex(book.bids, order)]

\* the render that follows executeSimulation on the same book
Locate ==
    /\ ~IsNull(calcResult)
    /\ IsNull(calcIndex.order)
    /\ calcIndex' = Render(calcBook, executeSimulation(calcOrder, calcBook).order)
    /\ UNCHANGED <<calcOrder, calcBook, calcResult, lastAction>>
    /\ UNCHANGED sessionVars
    /\ UNCHANGED simVars

CalcInit ==
    /\ PageInit
    /\ calcOrder \in CalcOrders
    /\ calcBook \in CalcBooksFor(calcOrder.side)
    /\ calcResult = Null
    /\ calcIndex = Render(calcBook, Null)

CalcNext == Calculate \/ Locate

CalcSpec == CalcInit /\ [][CalcNext]_vars

----------------------------------------------------------------------------
(* Properties *)

OpenSockets == {t \in Ids : sockets[t].readyState = "OPEN"}

\* C1: at most one transport is OPEN at any time, and when a venue switch
\* creates the new transport every earlier transport has already had close()
\* called on it (none is CONNECTING or OPEN at that moment).
C1_SingleOpenTransport ==
    /\ Cardinality(OpenSockets) <= 1
    /\ lastAction.op = "setActiveVenue" => lastAction.liveAtCreate = {}

\* a switch away from an OPEN transport (it was sent the unsubscribe) after
\* which the new venue's transport has opened
C1_Witness ==
    \E t1, t2 \in Ids :
        /\ t1 < t2
        /\ sockets[t1].closeCalled
        /\ Len(sockets[t1].sent) = 2
        /\ sockets[t2].readyState = "OPEN"

\* C2: at most one simulation timer is pending, the pending one belongs to the
\* most recent submission (a new submission cancels the one before it), and a
\* simulation that executes is the most recent submission's, so a cancelled
\* submission never publishes.
C2_SingleSlotSimulation ==
    /\ Cardinality(timers) <= 1
    /\ \A tm \in timers : tm.id = submissions
    /\ lastAction.op = "executeSimulation" => lastAction.submission = submissions

\* a submission that cancelled a pending delayed one
C2_Witness ==
    /\ lastAction.op \in {"submit", "executeSimulation"}
    /\ lastAction.cancelled # {}

\* C3: a delayed simulation publishes the metrics calculateMetrics gives for
\* the book that is current when its timer fires.
C3_FiresOnCurrentBook ==
    (lastAction.op = "executeSimulation" /\ lastAction.delayed)
        => simulationMetrics = calculateMetrics(simulatedOrder, currentOrderbook)

Price(level) == parseFloat(level[1]).num
Size(level) == parseFloat(level[2]).num

StrictlyDescending(ladder) ==
    \A i \in 1..(Len(ladder) - 1) : Price(ladder[i]) > Price(ladder[i + 1])
StrictlyAscending(ladder) ==
    \A i \in 1..(Len(ladder) - 1) : Price(ladder[i]) < Price(ladder[i + 1])

\* C4: every book a venue's parse produced from ordered wire arrays has its
\* bids strictly descending and its asks strictly ascending by price.
C4_ParsedBooksOrdered ==
    \A v \in Venues :
        Renders(orderbook[v]) =>
            /\ StrictlyDescending(orderbook[v].bids)
            /\ StrictlyAscending(orderbook[v].asks)

RECURSIVE SizeBefore(_, _)
SizeBefore(ladder, i) == IF i <= 1 THEN 0 ELSE SizeBefore(ladder, i - 1) + Size(ladder[i - 1])

TotalSize(ladder) == SizeBefore(ladder, Len(ladder) + 1)

\* what level i gives an order of quantity q that takes every level in turn
FillAt(ladder, q, i) ==
    LET remaining == q - SizeBefore(ladder, i)
    IN  IF remaining <= 0 THEN 0 ELSE Min(remaining, Size(ladder[i]))

RECURSIVE CostUpTo(_, _, _)
CostUpTo(ladder, q, i) ==
    IF i = 0 THEN 0
    ELSE CostUpTo(ladder, q, i - 1) + FillAt(ladder, q, i) * Price(ladder[i])

ConsumedSide == IF calcOrder.side = "Buy" THEN calcBook.asks ELSE calcBook.bids
CalcQty == parseFloat(calcOrder.quantity).num
Calculated == ~IsNull(calcResult)

ExampleAsks ==
    <<<<toString(100), toString(1)>>, <<toString(101), toString(2)>>,
      <<toString(102), toString(5)>>>>
ExampleBids == <<<<toString(99), toString(1)>>, <<toString(98), toString(2)>>>>

IsExample(side, type, qty, ladder) ==
    /\ Calculated
    /\ calcOrder.side = side
    /\ calcOrder.orderType = type
    /\ CalcQty = qty
    /\ ConsumedSide = ladder

\* C5: a Market order fills min(Q, total size of the consumed side), at the
\* average price sum(fill_i * price_i) / filled, with fillPercent =
\* filled / Q * 100; Buy 2 and Buy 10 against the example asks give
\* (2, 100.5, 100) and (8, 812/8, 80).
C5_MarketWalk ==
    (Calculated /\ calcOrder.orderType = "Market") =>
        /\ calcResult.filledQty = Min(CalcQty, TotalSize(ConsumedSide))
        /\ calcResult.filledQty > 0 =>
              NumEq(calcResult.avgFillPrice,
                    CostUpTo(ConsumedSide, CalcQty, Len(ConsumedSide)), calcResult.filledQty)
        /\ NumEq(calcResult.fillPercent, calcResult.filledQty * 100, CalcQty)
        /\ IsExample("Buy", "Market", 2, ExampleAsks) =>
              /\ calcResult.filledQty = 2
              /\ NumEq(calcResult.avgFillPrice, 201, 2)
              /\ NumEq(calcResult.fillPercent, 100, 1)
        /\ IsExample("Buy", "Market", 10, ExampleAsks) =>
              /\ calcResult.filledQty = 8
              /\ NumEq(calcResult.avgFillPrice, 812, 8)
              /\ NumEq(calcResult.fillPercent, 80, 1)

\* the Buy 10 example: the order is larger than the whole side
C5_Witness == IsExample("Buy", "Market", 10, ExampleAsks) /\ calcResult.filledQty = 8

CalcLimit == parseFloat(calcOrder.price).num

Eligible(level) ==
    IF calcOrder.side = "Buy" THEN Price(level) <= CalcLimit ELSE Price(level) >= CalcLimit

RECURSIVE EligibleSize(_, _)
EligibleSize(ladder, i) ==
    IF i = 0 THEN 0
    ELSE EligibleSize(ladder, i - 1) + (IF Eligible(ladder[i]) THEN Size(ladder[i]) ELSE 0)

\* C6: a Limit order fills min(Q, total size of the eligible levels), wherever
\* they sit in the ladder; Sell 1 at 100 against the example bids fills 0.
C6_LimitWalk ==
    (Calculated /\ calcOrder.orderType = "Limit") =>
        /\ calcResult.filledQty = Min(CalcQty, EligibleSize(ConsumedSide, Len(ConsumedSide)))
        /\ NumEq(calcResult.fillPercent, calcResult.filledQty * 100, CalcQty)
        /\ (IsExample("Sell", "Limit", 1, ExampleBids) /\ CalcLimit = 100) =>
              /\ calcResult.filledQty = 0
              /\ NumEq(calcResult.fillPercent, 0, 1)

\* an eligible level that follows an ineligible one is filled
C6_Witness ==
    /\ Calculated
    /\ calcOrder.orderType = "Limit"
    /\ Len(ConsumedSide) >= 2
    /\ ~Eligible(ConsumedSide[1])
    /\ Eligible(ConsumedSide[2])
    /\ calcResult.filledQty > 0

\* C7: the result carries a warning exactly when its slippage exceeds 0.5;
\* Buy 2 against the example asks has slippage exactly 0.5 and no warning.
C7_WarningThreshold ==
    Calculated =>
        /\ calcResult.warning # "" <=> GreaterThan(calcResult.slippage, 1, 2)
        /\ IsExample("Buy", "Market", 2, ExampleAsks) =>
              /\ NumEq(calcResult.slippage, 1, 2)
              /\ calcResult.warning = ""

\* the example whose slippage is exactly 0.5
C7_Witness ==
    /\ IsExample("Buy", "Market", 2, ExampleAsks)
    /\ NumEq(calcResult.slippage, 1, 2)
    /\ calcResult.warning = ""

\* C8: a malformed inbound message is dropped: the handler does not raise, no
\* book is published for it, and no published book has an undefined side.
C8_MalformedDropped ==
    /\ (lastAction.op = "message" /\ lastAction.malformed) =>
            /\ ~lastAction.raised
            /\ ~lastAction.published
    /\ \A v \in Venues : Renders(orderbook[v])

\* C9: against an empty consumed side the result is filled 0, fillPercent 0,
\* slippage 0, no warning, and a price impact that is a number >= 0.
C9_EmptySideDegrades ==
    (Calculated /\ Len(ConsumedSide) = 0) =>
        /\ calcResult.filledQty = 0
        /\ NumEq(calcResult.fillPercent, 0, 1)
        /\ NumEq(calcResult.slippage, 0, 1)
        /\ calcResult.warning = ""
        /\ AtLeast(calcResult.impact, 0, 1)

\* C10: once a session has been deactivated its ping timer is not scheduled,
\* and a ping timer that fires never belongs to a deactivated session.
C10_NoPingAfterDeactivate ==
    /\ \A t \in Ids : sockets[t].closeCalled => sockets[t].pingInterval # "active"
    /\ lastAction.op = "ping" => ~sockets[lastAction.socket].closeCalled

\* a Bybit session deactivated while its ping timer was running
C10_Witness ==
    \E t \in Ids :
        /\ sockets[t].venue = "Bybit"
        /\ sockets[t].closeCalled
        /\ sockets[t].pingInterval = "cleared"
        /\ sockets[t].readyState = "CLOSING"

HasPing(t) == \E i \in 1..Len(sockets[t].sent) : sockets[t].sent[i] = PingMessage

\* C11: a ping timer is scheduled exactly for a Bybit session that is OPEN (it
\* starts with the open event and is gone after a close or error event and
\* after deactivation), a ping goes out on the timer's own OPEN transport, and
\* no ping is ever sent on an OKX or Deribit transport.
C11_PingOnlyWhileBybitOpen ==
    /\ \A t \in Ids :
          sockets[t].pingInterval = "active"
              <=> (sockets[t].venue = "Bybit" /\ sockets[t].readyState = "OPEN")
    /\ \A t \in Ids : HasPing(t) => sockets[t].venue = "Bybit"
    /\ (lastAction.op = "ping" /\ lastAction.on # 0) =>
          /\ lastAction.on = lastAction.socket
          /\ sockets[lastAction.on].readyState = "OPEN"

\* a Bybit session that sent a ping and then lost its transport (a close or
\* error event, not a deactivation): the timer is cancelled
C11_Witness ==
    \E t \in Ids :
        /\ sockets[t].venue = "Bybit"
        /\ HasPing(t)
        /\ sockets[t].readyState = "CLOSED"
        /\ ~sockets[t].closeCalled
        /\ sockets[t].pingInterval = "cleared"

\* C12: a transport that ends without the session having been deactivated (an
\* error or an abrupt close) leaves its venue reported disconnected and is not
\* replaced: a step creates a transport only when it activates a venue, and then
\* exactly one, so the transports never outnumber the activations.
C12_NoAutoReconnect ==
    [][ /\ Len(sockets') >= Len(sockets)
        /\ Len(sockets') # Len(sockets) =>
              /\ activeVenue' # activeVenue
              /\ Len(sockets') = Len(sockets) + 1
              /\ sockets'[Len(sockets')].venue = activeVenue'
        /\ \A t \in Ids :
              ( /\ ~sockets[t].closeCalled
                /\ sockets[t].readyState # "CLOSED"
                /\ sockets'[t].readyState = "CLOSED" ) =>
                  /\ ~isConnected'[sockets[t].venue]
                  /\ Len(sockets') = Len(sockets)
      ]_vars

\* the active session was Open (it sent its subscription) and its transport then
\* ended on its own: the venue is shown disconnected and no newer transport exists
C12_Witness ==
    \E t \in Ids :
        /\ t = Len(sockets)
        /\ t = wsCurrent[activeVenue]
        /\ sockets[t].sent # <<>>
        /\ sockets[t].readyState = "CLOSED"
        /\ ~sockets[t].closeCalled
        /\ ~isConnected[activeVenue]
        /\ lastAction.op = "closed"

\* C13: a venue's published book is empty when its session is activated (and
\* so holds no level received during an earlier session of that venue).
C13_ActivationStartsEmpty ==
    lastAction.op = "setActiveVenue" => orderbook[activeVenue] = EmptyBook

\* the book section of a book-channel message and one side of it, as
\* [price, size] values (OKX and Bybit carry strings, Deribit numbers)
WireSection(venue, data) ==
    CASE venue = "OKX" -> data.data[1]
      [] venue = "Bybit" -> data.data
      [] venue = "Deribit" -> data.params.data

WireLadder(venue, data, side) ==
    LET section == WireSection(venue, data)
        field == IF venue = "Bybit" THEN (IF side = "bids" THEN "b" ELSE "a") ELSE side
    IN  IF Has(section, field) THEN section[field] ELSE <<>>

CarriedLevels(venue, data, side) ==
    LET ladder == WireLadder(venue, data, side)
    IN  {IF venue = "Deribit"
         THEN <<Num(ladder[i][1], 1), Num(ladder[i][2], 1)>>
         ELSE <<parseFloat(ladder[i][1]), parseFloat(ladder[i][2])>> : i \in 1..Len(ladder)}

PublishedLadder(book, side) == IF Has(book, side) THEN book[side] ELSE <<>>

PublishedLevels(book, side) ==
    LET ladder == PublishedLadder(book, side)
    IN  {<<parseFloat(ladder[i][1]), parseFloat(ladder[i][2])>> : i \in 1..Len(ladder)}

\* C14: after a message that parsed to an update, the venue's published book
\* holds on each side exactly the levels that message carries, as many and with
\* the same prices and sizes: none of the book it replaced remains.
C14_UpdateReplacesBook ==
    (lastAction.op = "message" /\ lastAction.published) =>
        \A side \in {"bids", "asks"} :
            LET book == orderbook[lastAction.venue]
            IN  /\ PublishedLevels(book, side)
                      = CarriedLevels(lastAction.venue, lastAction.message, side)
                /\ Len(PublishedLadder(book, side))
                      = Len(WireLadder(lastAction.venue, lastAction.message, side))

\* an update with no levels arrived while the venue's book held levels
C14_Witness ==
    /\ lastAction.op = "message"
    /\ lastAction.published
    /\ lastAction.replaced
    /\ orderbook[lastAction.venue] = EmptyBook

\* an order a simulation may run on: a quantity above 0 and, for a Limit
\* order, a price above 0
ValidOrder(order) ==
    /\ Len(order.quantity) > 0
    /\ GreaterThan(parseFloat(order.quantity), 0, 1)
    /\ order.orderType = "Limit" =>
          (Len(order.price) > 0 /\ GreaterThan(parseFloat(order.price), 0, 1))

\* C15: an order whose quantity is missing or not above 0, or a Limit order
\* whose price is missing or not above 0, never reaches the simulation (it is
\* neither scheduled nor published); the step that rejects it reports an error
\* and leaves the published result and order, the pending delayed simulation
\* and its handle as they were.
C15_InvalidOrderRejected ==
    [][ /\ lastAction'.op = "rejected" =>
              /\ formError' # ""
              /\ UNCHANGED <<simulationTimeout, timers, submissions,
                             simulatedOrder, simulationMetrics>>
        /\ \A tm \in timers' : ValidOrder(tm.formData)
        /\ ~IsNull(simulatedOrder') => ValidOrder(simulatedOrder')
      ]_vars

\* a rejection while a delayed simulation is pending: it stays scheduled
C15_Witness ==
    /\ lastAction.op = "rejected"
    /\ formError # ""
    /\ \E tm \in timers : tm.id = simulationTimeout

\* C16: once an accepted submission has executed (at once for delay 0, when
\* its timer fires otherwise) the published result and the published order are
\* the ones computed for that submission.
C16_ExecutionPublishes ==
    lastAction.op = "executeSimulation" =>
        /\ simulatedOrder = lastAction.result.order
        /\ simulationMetrics = lastAction.result.metrics

\* C17: for an order of quantity Q > 0 against a book whose sizes are >= 0,
\* the filled quantity is at most Q and fillPercent lies between 0 and 100.
C17_NeverOverfills ==
    (Calculated /\ CalcQty > 0 /\ \A i \in 1..Len(ConsumedSide) : Size(ConsumedSide[i]) >= 0) =>
        /\ calcResult.filledQty >= 0
        /\ calcResult.filledQty <= CalcQty
        /\ AtLeast(calcResult.fillPercent, 0, 1)
        /\ ~GreaterThan(calcResult.fillPercent, 100, 1)
        /\ ~IsNaN(calcResult.fillPercent)

\* a Limit order filled in full by a level that holds more than is still needed
C17_Witness ==
    /\ Calculated
    /\ calcOrder.orderType = "Limit"
    /\ calcResult.filledQty = CalcQty
    /\ NumEq(calcResult.fillPercent, 100, 1)
    /\ \E i \in 1..Len(ConsumedSide) :
          /\ Eligible(ConsumedSide[i])
          /\ Size(ConsumedSide[i]) > CalcQty
          /\ \A j \in 1..(i - 1) : Size(ConsumedSide[j]) = 0

C19_LimitHasNoSlippage ==
    (Calculated /\ calcOrder.orderType = "Limit") =>
        /\ NumEq(calcResult.slippage, 0, 1)
        /\ NumEq(calcResult.impact, 0, 1)
        /\ calcResult.warning = ""

\* a Limit order that fills at two prices, the second one away from the best
C19_Witness ==
    /\ Calculated
    /\ calcOrder.orderType = "Limit"
    /\ Len(ConsumedSide) >= 2
    /\ Price(ConsumedSide[1]) # Price(ConsumedSide[2])
    /\ Eligible(ConsumedSide[1]) /\ Size(ConsumedSide[1]) > 0
    /\ Eligible(ConsumedSide[2]) /\ Size(ConsumedSide[2]) > 0
    /\ calcResult.filledQty > Size(ConsumedSide[1])
    /\ NumEq(calcResult.slippage, 0, 1)

\* the ladder whose row is highlighted for the located order and the index
\* OrderBook highlights in it (lines 234 and 251)
HighlightedLadder == IF calcIndex.order.side = "Buy" THEN calcBook.asks ELSE calcBook.bids
HighlightedIndex ==
    IF calcIndex.order.side = "Buy" THEN calcIndex.simulatedAskIndex
    ELSE calcIndex.simulatedBidIndex

\* the order's price is at or beyond the price of level i of the highlighted ladder
Reaches(i) ==
    /\ Len(calcIndex.order.price) > 0
    /\ IF calcIndex.order.side = "Buy"
       THEN parseFloat(calcIndex.order.price).num >= Price(HighlightedLadder[i])
       ELSE parseFloat(calcIndex.order.price).num <= Price(HighlightedLadder[i])

\* C20: findSimulatedIndex gives -1 when there is no simulated order; for an
\* order it gives the 0-based index of the first level of the highlighted
\* ladder (asks for Buy, bids for Sell) with orderPrice >= price (Buy) or
\* orderPrice <= price (Sell), and -1 when no level is such; every index is
\* >= -1 and below the number of levels; a Market order located in the
\* non-empty book it was executed against is at index 0.
C20_BookLocator ==
    ~IsNull(calcIndex) =>
        /\ calcIndex.simulatedAskIndex \in -1..(Len(calcBook.asks) - 1)
        /\ calcIndex.simulatedBidIndex \in -1..(Len(calcBook.bids) - 1)
        /\ IsNull(calcIndex.order) =>
              /\ calcIndex.simulatedAskIndex = -1
              /\ calcIndex.simulatedBidIndex = -1
        /\ ~IsNull(calcIndex.order) =>
              LET matching == {i \in 1..Len(HighlightedLadder) : Reaches(i)}
              IN  /\ matching = {} => HighlightedIndex = -1
                  /\ matching # {} =>
                        /\ HighlightedIndex + 1 \in matching
                        /\ \A i \in matching : HighlightedIndex + 1 <= i
                  /\ (calcIndex.order.orderType = "Market" /\ Len(HighlightedLadder) > 0) =>
                        HighlightedIndex = 0

\* a Limit order whose first reached level is not the first of the ladder
C20_Witness ==
    /\ ~IsNull(calcIndex)
    /\ ~IsNull(calcIndex.order)
    /\ calcIndex.order.orderType = "Limit"
    /\ HighlightedIndex >= 1
    /\ \E i \in 1..Len(HighlightedLadder) : i > HighlightedIndex + 1 /\ Reaches(i)

IsSubscribe(msg) == msg.op \in {"subscribe", "public/subscribe"}
IsUnsubscribe(msg) == msg.op \in {"unsubscribe", "public/unsubscribe"}

\* C21: nothing is sent on a transport that has not had its open event; the
\* first message a transport carries is the subscribe for its venue and
\* symbol, it carries it once it is OPEN and never a second one; the open
\* handler never fails to send it; and a venue is reported connected only
\* when a transport of it has carried its subscribe.
C21_SubscribeOnceOnOpen ==
    /\ \A t \in Ids :
          /\ sockets[t].readyState = "CONNECTING" => sockets[t].sent = <<>>
          /\ sockets[t].readyState = "OPEN" => sockets[t].sent # <<>>
          /\ sockets[t].sent # <<>> =>
                /\ sockets[t].sent[1] = subscribe(sockets[t].venue, Symbol(sockets[t].venue))
                /\ \A i \in 2..Len(sockets[t].sent) : ~IsSubscribe(sockets[t].sent[i])
    /\ \A v \in Venues :
          isConnected[v] => \E t \in Ids : sockets[t].venue = v /\ sockets[t].sent # <<>>
    /\ lastAction.op = "open" =>
          /\ ~lastAction.raised
          /\ \E t \in Ids :
                /\ t = wsCurrent[sockets[t].venue]
                /\ sockets[t].readyState = "OPEN"
                /\ sockets[t].sent = <<subscribe(sockets[t].venue, Symbol(sockets[t].venue))>>
                /\ isConnected[sockets[t].venue]

\* the second session of a venue has opened: each of the venue's two
\* transports carried one subscribe
C21_Witness ==
    \E t, u \in Ids :
        /\ t < u
        /\ sockets[t].venue = sockets[u].venue
        /\ sockets[t].sent # <<>>
        /\ sockets[u].readyState = "OPEN"
        /\ Len(sockets[u].sent) = 1
        /\ isConnected[sockets[u].venue]

\* C22: the step that deactivates a session (the first close() on its
\* transport) sends, when the transport is OPEN, one unsubscribe naming the
\* channel and symbol of the session's subscribe and leaves the transport
\* closing; when the transport is not OPEN it sends nothing and only closes.
\* An unsubscribe is sent in no other step, so a transport carries at most
\* one, as its last message.
C22_UnsubscribeOnDeactivate ==
    [][ \A t \in Ids :
          LET old == sockets[t]
              new == sockets'[t]
          IN  /\ (~old.closeCalled /\ new.closeCalled) =>
                    IF old.readyState = "OPEN"
                    THEN /\ Len(new.sent) = Len(old.sent) + 1
                         /\ SubSeq(new.sent, 1, Len(old.sent)) = old.sent
                         /\ IsUnsubscribe(new.sent[Len(new.sent)])
                         /\ new.sent[Len(new.sent)].channel = old.sent[1].channel
                         /\ new.sent[Len(new.sent)].instId = old.sent[1].instId
                         /\ new.readyState = "CLOSING"
                    ELSE /\ new.sent = old.sent
                         /\ new.readyState =
                               (IF old.readyState = "CONNECTING" THEN "CLOSING"
                                ELSE old.readyState)
              /\ \A i \in 1..Len(new.sent) :
                    IsUnsubscribe(new.sent[i]) => (i = Len(new.sent) /\ new.closeCalled)
              /\ (old.closeCalled /\ new.closeCalled) => new.sent = old.sent
      ]_vars

\* one session was deactivated while OPEN (its transport carries the
\* unsubscribe), another while still connecting (its transport carries nothing)
C22_Witness ==
    \E t, u \in Ids :
        /\ sockets[t].closeCalled
        /\ Len(sockets[t].sent) >= 2
        /\ IsUnsubscribe(sockets[t].sent[Len(sockets[t].sent)])
        /\ sockets[u].closeCalled
        /\ sockets[u].sent = <<>>

\* a message of the venue's book channel, which its adapter parses to an update
IsBookMessage(venue, data) ==
    CASE venue = "OKX" ->
           /\ Has(data, "arg") /\ data.arg.channel = "books"
           /\ Has(data, "data") /\ Len(data.data) > 0
      [] venue = "Bybit" ->
           Has(data, "topic") /\ StartsWith(data.topic, "orderbook.50") /\ Has(data, "data")
      [] venue = "Deribit" ->
           /\ Has(data, "params") /\ Has(data.params, "channel")
           /\ StartsWith(data.params.channel, "book.") /\ Has(data.params, "data")

C24_OpenSessionIsConnected ==
    \A v \in Venues :
        ( /\ wsCurrent[v] # 0
          /\ sockets[wsCurrent[v]].readyState = "OPEN"
          /\ sockets[wsCurrent[v]].sent # <<>> ) => isConnected[v]

\* C25: after a venue is activated its book holds only levels received on its
\* current transport: while that transport is still connecting, and so has
\* delivered nothing, the book holds no level.
C25_OnlyCurrentTransportLevels ==
    \A v \in Venues :
        (wsCurrent[v] # 0 /\ sockets[wsCurrent[v]].readyState = "CONNECTING") =>
            orderbook[v] = EmptyBook

\* C26: at most one venue is reported connected at any time.
C26_SingleConnectedVenue == Cardinality({v \in Venues : isConnected[v]}) <= 1

====
